---- MODULE Spec2Model ----
(***************************************************************************)
(* GreynirCorrect: annotation assembly (checker.py, GreynirCorrect.annotate)*)
(* and result serialization (wrappers.py).                                  *)
(*                                                                          *)
(* Token indices are 0-based as in the Python source; TLA+ sequences are    *)
(* 1-based, so Python's tokens[i] is tokens[i + 1] here.                    *)
(***************************************************************************)
EXTENDS Integers, Sequences, FiniteSets, TLC

\* ---------------------------------------------------------------------
\* Bounds of the model
\* ---------------------------------------------------------------------
MaxTokens == 2
MaxSpan == 2
MaxSpaces == 1
MaxWalker == 3
MaxPattern == 1
MaxSentences == 2
MaxAnns == 2
MaxDocTokens == 3
MaxSpliceTokens == 4
MaxSpliceAnns == 2
MaxFailTokens == 4

\* ---------------------------------------------------------------------
\* Sentence annotator: state of one annotate(sent) call
\* ---------------------------------------------------------------------
VARIABLES
    sent,               \* the sentence: tokens, parsed (deep_tree is not None), err_index
    ix,                 \* position of the token loop (enumerate(sent.tokens))
    words_in_bin,       \* counter of recognized words
    words_not_in_bin,   \* counter of unrecognized words
    ann,                \* the annotation list under construction / returned
    pc,                 \* position inside annotate()
    lastCheck,          \* outcome of the suggestion validation of the last token visited
    ran                 \* collaborators run so far, in order (ErrorFinder, PatternMatcher)

annVars == <<sent, ix, words_in_bin, words_not_in_bin, ann, pc, lastCheck, ran>>

\* ---------------------------------------------------------------------
\* wrappers.py: state of the result objects and of the calls on them
\* ---------------------------------------------------------------------
VARIABLES
    results,            \* the CorrectionResult: its list of CorrectedSentence
    results0,           \* the CorrectionResult as it was handed to the call
    ignore_rules,       \* the set of codes passed to filter_annotations
    si,                 \* position of the loop over results.sentences
    text,               \* check_errors: the input option, NoText when absent
    all_errors,         \* check_errors: the all_errors option
    format,             \* the format argument
    sentence_results,   \* format_grammar: the list handed to format_output
    full_correction_toks, \* format_grammar: the spliced token list of the last sentence
    output,             \* the list of lines joined into the returned string
    error,              \* the exception raised, "" when none
    wpc,                \* position inside the wrappers.py call
    do_grammar_check,   \* GreynirCorrectAPI.do_grammar_check
    sentence_prefilter, \* GreynirCorrectAPI.sentence_prefilter is not None
    corrected_tokens,   \* correct(): the token list of the spelling pipeline
    calls               \* correct(): the collaborators called so far, in order

apiVars == <<do_grammar_check, sentence_prefilter, corrected_tokens, calls>>

wrapVars == <<results, results0, ignore_rules, si, text, all_errors, format,
              sentence_results, full_correction_toks, output, error, wpc, apiVars>>

\* a GreynirCorrectAPI with the default settings, correct() not yet called
ApiIdle ==
    /\ do_grammar_check = TRUE
    /\ sentence_prefilter = FALSE
    /\ corrected_tokens = <<>>
    /\ calls = <<>>

\* ---------------------------------------------------------------------
\* checker.py: the parser singleton of class GreynirCorrect and its callers
\* ---------------------------------------------------------------------
VARIABLES
    _parser,            \* GreynirCorrect._parser: 0 is None, else the instance number
    _reducer,           \* GreynirCorrect._reducer: 0 is None, else the number of the
                        \* parser whose grammar it was built from
    _lock,              \* GreynirCorrect._lock: 0 when free, else the holding caller
    modified,           \* what _parser.is_grammar_modified()[0] answers
    reports,            \* how many times the grammar has been reported modified
    created,            \* how many ErrorDetectingParser instances have been created
    tpc,                \* each caller's position
    edp,                \* each caller's local edp
    got                 \* the parser and the reducer each caller has received

parVars == <<_parser, _reducer, _lock, modified, reports, created, tpc, edp, got>>

vars == <<annVars, wrapVars, parVars>>

MaxThreads == 3
MaxReports == 1

Threads == 1..MaxThreads

\* the class attributes as the class statement leaves them, no caller started
ParIdle ==
    /\ _parser = 0
    /\ _reducer = 0
    /\ _lock = 0
    /\ modified = FALSE
    /\ reports = 0
    /\ created = 0
    /\ tpc = [t \in Threads |-> "idle"]
    /\ edp = [t \in Threads |-> 0]
    /\ got = [t \in Threads |-> [parser |-> 0, reducer |-> 0]]

\* no wrappers.py call is in progress
WrapIdle ==
    /\ results = [sentences |-> <<>>]
    /\ results0 = [sentences |-> <<>>]
    /\ ignore_rules = {}
    /\ si = 0
    /\ text = "<None>"
    /\ all_errors = TRUE
    /\ format = ""
    /\ sentence_results = <<>>
    /\ full_correction_toks = <<>>
    /\ output = <<>>
    /\ error = ""
    /\ wpc = "idle"
    /\ ApiIdle

\* no annotate() call is in progress
AnnIdle ==
    /\ sent = [tokens |-> <<>>, parsed |-> FALSE, err_index |-> 0 - 1]
    /\ ix = 0
    /\ words_in_bin = 0
    /\ words_not_in_bin = 0
    /\ ann = <<>>
    /\ pc = "idle"
    /\ lastCheck = "none"
    /\ ran = <<>>

\* sent.err_index is None
NoIndex == 0 - 1

\* A token without an error marker: getattr(t, "error_code", None) is falsy
NoError == [code |-> "", span |-> 0]

TokenCodes == {"S004"}

Markers == {NoError} \cup {[code |-> c, span |-> k] : c \in TokenCodes, k \in 1..MaxSpan}

\* Tokens as the tokenizer hands them over: kind, val (non-empty list of
\* meanings), number of spaces in txt, and the optional error marker.
Tokens ==
    {[kind |-> "WORD", val |-> v, spaces |-> 0, err |-> e] : v \in BOOLEAN, e \in Markers}
    \cup {[kind |-> "PERSON", val |-> TRUE, spaces |-> 0, err |-> e] : e \in Markers}
    \cup {[kind |-> "ENTITY", val |-> FALSE, spaces |-> s, err |-> e] :
            s \in 0..MaxSpaces, e \in Markers}
    \cup {[kind |-> "PUNCTUATION", val |-> TRUE, spaces |-> 0, err |-> e] : e \in Markers}

SeqsUpTo(S, k) == UNION {[1..m -> S] : m \in 0..k}

\* A parsed sentence reports no failure index; an unparsed one reports none
\* or the index of a token.
Sentences ==
    {[tokens |-> t, parsed |-> TRUE, err_index |-> NoIndex] : t \in SeqsUpTo(Tokens, MaxTokens)}
    \cup UNION {{[tokens |-> t, parsed |-> FALSE, err_index |-> e] :
                    e \in {NoIndex} \cup (0..(Len(t) - 1))} : t \in SeqsUpTo(Tokens, MaxTokens)}

NumTokens == Len(sent.tokens)

Annotation(start, end, code, detail) ==
    [start |-> start, end |-> end, code |-> code, detail |-> detail]

\* sort key (a.start, -a.end): TRUE when a sorts strictly before b
KeyLess(a, b) == a.start < b.start \/ (a.start = b.start /\ a.end > b.end)

\* list.sort is stable: an element goes after every element that does not
\* sort strictly after it.
RECURSIVE InsertStable(_, _)
InsertStable(s, a) ==
    IF s = <<>> THEN <<a>>
    ELSE IF KeyLess(a, s[Len(s)]) THEN Append(InsertStable(SubSeq(s, 1, Len(s) - 1), a), s[Len(s)])
    ELSE Append(s, a)

RECURSIVE SortAnn(_)
SortAnn(s) ==
    IF s = <<>> THEN <<>>
    ELSE InsertStable(SortAnn(SubSeq(s, 1, Len(s) - 1)), s[Len(s)])

DelAt(s, k) == SubSeq(s, 1, k - 1) \o SubSeq(s, k + 1, Len(s))

\* the while loop that removes an annotation equal in code and span to its
\* predecessor; i is the Python index
RECURSIVE Dedup(_, _)
Dedup(s, i) ==
    IF i >= Len(s) THEN s
    ELSE IF s[i + 1].code = s[i].code /\ s[i + 1].start = s[i].start /\ s[i + 1].end = s[i].end
         THEN Dedup(DelAt(s, i + 1), i)
         ELSE Dedup(s, i + 1)

Normalize(s) == Dedup(SortAnn(s), 1)

\* the threshold taken as one third instead of one half
BelowIcelandicRatio_Third(in_bin, num_words) == 3 * in_bin < num_words

\* words_in_bin / num_words < ICELANDIC_RATIO, with ICELANDIC_RATIO = 0.5
BelowIcelandicRatio(in_bin, num_words) == 2 * in_bin < num_words

InitAnnotate ==
    /\ sent \in Sentences
    /\ ix = 0
    /\ words_in_bin = 0
    /\ words_not_in_bin = 0
    /\ ann = <<>>
    /\ pc = "tokens"
    /\ lastCheck = "none"
    /\ ran = <<>>
    /\ WrapIdle
    /\ ParIdle

\* the validation carried out whether the sentence parsed or not
Checks_Unparsed(parsed) == {"no_terminal", "match", "mismatch", "lookup_error"}

\* Outcomes of the grammatical validation of a marked token
Checks(parsed) ==
    IF parsed THEN {"no_terminal", "match", "mismatch", "lookup_error"} ELSE {"not_checked"}

\* one iteration of: for ix, t in enumerate(sent.tokens)
TokenStep ==
    /\ pc = "tokens"
    /\ ix < NumTokens
    /\ LET t == sent.tokens[ix + 1] IN
        /\ words_in_bin' =
                IF (t.kind = "WORD" /\ t.val) \/ t.kind = "PERSON"
                THEN words_in_bin + 1 ELSE words_in_bin
        /\ words_not_in_bin' =
                IF t.kind = "WORD" /\ ~t.val THEN words_not_in_bin + 1
                ELSE IF t.kind = "ENTITY" THEN words_not_in_bin + t.spaces + 1
                ELSE words_not_in_bin
        /\ IF t.err.code # ""
           THEN \E c \in Checks(sent.parsed) :
                    /\ lastCheck' = c
                    /\ ann' = IF c = "mismatch" THEN ann
                              ELSE Append(ann, Annotation(ix, ix + t.err.span - 1, t.err.code, <<>>))
           ELSE /\ lastCheck' = "none"
                /\ ann' = ann
    /\ ix' = ix + 1
    /\ UNCHANGED <<sent, pc, ran, wrapVars, parVars>>

TokensDone ==
    /\ pc = "tokens"
    /\ ix = NumTokens
    /\ pc' = "sentence"
    /\ UNCHANGED <<sent, ix, words_in_bin, words_not_in_bin, ann, lastCheck, ran, wrapVars, parVars>>

NumWords == words_in_bin + words_not_in_bin

LanguageRatioFires == NumWords > 2 /\ BelowIcelandicRatio(words_in_bin, NumWords)

\* less than 50% Icelandic words: E004 replaces the list
NotIcelandic ==
    /\ pc = "sentence"
    /\ LanguageRatioFires
    /\ ann' = Normalize(<<Annotation(0, NumTokens - 1, "E004",
                            <<(words_not_in_bin * 100) \div NumWords>>)>>)
    /\ pc' = "done"
    /\ UNCHANGED <<sent, ix, words_in_bin, words_not_in_bin, lastCheck, ran, wrapVars, parVars>>

Max(a, b) == IF a > b THEN a ELSE b
Min(a, b) == IF a < b THEN a ELSE b

\* err_index = sent.err_index or 0
ErrIndex == IF sent.err_index = NoIndex THEN 0 ELSE sent.err_index

\* start = max(0, err_index - 1)
WindowStart == Max(0, ErrIndex - 1)

\* the window ending at the failing token
WindowEnd_AtIndex == Min(NumTokens, ErrIndex + 1)

\* end = min(len(sent.tokens), err_index + 2), the end of the slice
\* sent.tokens[start:end]
WindowEnd == Min(NumTokens, ErrIndex + 2)

\* E001 replacing the list, as E004 does, instead of being appended
ParseFailed_Replace ==
    /\ pc = "sentence"
    /\ ~LanguageRatioFires
    /\ ~sent.parsed
    /\ ann' = Normalize(<<Annotation(0, NumTokens - 1, "E001", <<ErrIndex + 1, 0, 0>>)>>)
    /\ pc' = "done"
    /\ UNCHANGED <<sent, ix, words_in_bin, words_not_in_bin, lastCheck, ran, wrapVars, parVars>>

\* the sentence could not be parsed: E001 is appended
ParseFailed ==
    /\ pc = "sentence"
    /\ ~LanguageRatioFires
    /\ ~sent.parsed
    /\ LET start == WindowStart
           end == WindowEnd
       IN ann' = Normalize(Append(ann,
                    Annotation(0, NumTokens - 1, "E001", <<ErrIndex + 1, start, end>>)))
    /\ pc' = "done"
    /\ UNCHANGED <<sent, ix, words_in_bin, words_not_in_bin, lastCheck, ran, wrapVars, parVars>>

Spans(n) == {se \in (0..(n - 1)) \X (0..(n - 1)) : se[1] <= se[2]}

WalkerCodes == {"E002", "E003"}

PatternCodes == {"P_WRONG"}

Emitted(codes, n) == {Annotation(se[1], se[2], c, <<>>) : se \in Spans(n), c \in codes}

\* the tree walker run without asking whether the sentence parsed
RunErrorFinder_Unparsed ==
    /\ pc = "sentence"
    /\ ~LanguageRatioFires
    /\ \E out \in SeqsUpTo(Emitted(WalkerCodes, NumTokens), MaxWalker) : ann' = ann \o out
    /\ ran' = Append(ran, "ErrorFinder")
    /\ pc' = "pattern"
    /\ UNCHANGED <<sent, ix, words_in_bin, words_not_in_bin, lastCheck, wrapVars, parVars>>

\* ErrorFinder(ann, sent).run(): appends to ann
RunErrorFinder ==
    /\ pc = "sentence"
    /\ ~LanguageRatioFires
    /\ sent.parsed
    /\ \E out \in SeqsUpTo(Emitted(WalkerCodes, NumTokens), MaxWalker) : ann' = ann \o out
    /\ ran' = Append(ran, "ErrorFinder")
    /\ pc' = "pattern"
    /\ UNCHANGED <<sent, ix, words_in_bin, words_not_in_bin, lastCheck, wrapVars, parVars>>

\* PatternMatcher(ann, sent).run(): appends to ann; then sort and dedup
RunPatternMatcher ==
    /\ pc = "pattern"
    /\ \E out \in SeqsUpTo(Emitted(PatternCodes, NumTokens), MaxPattern) :
            ann' = Normalize(ann \o out)
    /\ ran' = Append(ran, "PatternMatcher")
    /\ pc' = "done"
    /\ UNCHANGED <<sent, ix, words_in_bin, words_not_in_bin, lastCheck, wrapVars, parVars>>

NextAnnotate ==
    \/ TokenStep
    \/ TokensDone
    \/ NotIcelandic
    \/ ParseFailed
    \/ RunErrorFinder
    \/ RunPatternMatcher

SpecAnnotate == InitAnnotate /\ [][NextAnnotate]_vars

\* ---------------------------------------------------------------------
\* Properties of annotate()
\* ---------------------------------------------------------------------
Done == pc = "done"

SameTriple(a, b) == a.code = b.code /\ a.start = b.start /\ a.end = b.end

SortedByKey(s) == \A i, j \in DOMAIN s : i < j => ~KeyLess(s[j], s[i])

NoDuplicateTriples(s) == \A i, j \in DOMAIN s : i < j => ~SameTriple(s[i], s[j])

\* C1: the list returned by annotate() is sorted by (start, -end) and holds
\* no two annotations with the same (code, start, end) triple.
C1_SortedNoDuplicates == Done => SortedByKey(ann) /\ NoDuplicateTriples(ann)

\* C2: every returned annotation satisfies 0 <= start <= end < number of
\* tokens of the sentence.
C2_SpanInvariant ==
    Done => \A i \in DOMAIN ann :
                0 <= ann[i].start /\ ann[i].start <= ann[i].end /\ ann[i].end < NumTokens

\* Word counts taken from the sentence itself
RecognizedIn(toks) ==
    Cardinality({i \in DOMAIN toks :
        (toks[i].kind = "WORD" /\ toks[i].val) \/ toks[i].kind = "PERSON"})

RECURSIVE UnrecognizedIn(_)
UnrecognizedIn(toks) ==
    IF toks = <<>> THEN 0
    ELSE LET t == toks[Len(toks)]
             w == IF t.kind = "WORD" /\ ~t.val THEN 1
                  ELSE IF t.kind = "ENTITY" THEN t.spaces + 1
                  ELSE 0
         IN w + UnrecognizedIn(SubSeq(toks, 1, Len(toks) - 1))

WordLike(toks) == RecognizedIn(toks) + UnrecognizedIn(toks)

\* more than 2 word-like tokens, recognized fraction below 0.5
MostlyForeign(toks) == WordLike(toks) > 2 /\ 2 * RecognizedIn(toks) < WordLike(toks)

MarkedTokens(toks) == {i \in DOMAIN toks : toks[i].err.code # ""}

\* C3: a sentence with more than 2 word-like tokens whose recognized
\* fraction is below 0.5 gets exactly one annotation, E004 over
\* [0, token_count - 1], whatever its error markers and parse outcome.
C3_LanguageRatio ==
    (Done /\ MostlyForeign(sent.tokens)) =>
        /\ Len(ann) = 1
        /\ ann[1].code = "E004"
        /\ ann[1].start = 0
        /\ ann[1].end = NumTokens - 1

C3_Witness ==
    /\ Done
    /\ MostlyForeign(sent.tokens)
    /\ ~sent.parsed
    /\ MarkedTokens(sent.tokens) # {}
    /\ Len(ann) = 1

WholeSentenceE001(s, n) ==
    /\ Cardinality({i \in DOMAIN s : s[i].code = "E001"}) = 1
    /\ \A i \in DOMAIN s : s[i].code = "E001" => s[i].start = 0 /\ s[i].end = n - 1

\* every marked token of an unparsed sentence has its annotation in s, and
\* s holds nothing else but one more annotation
TokenLevelKept(s, toks) ==
    /\ \A i \in MarkedTokens(toks) :
            \E k \in DOMAIN s :
                /\ s[k].start = i - 1
                /\ s[k].end = i - 1 + toks[i].err.span - 1
                /\ s[k].code = toks[i].err.code
    /\ Len(s) = Cardinality(MarkedTokens(toks)) + 1

\* C4 as stated: every unparsed sentence gets exactly one E001 over
\* [0, token_count - 1] together with all token-level annotations.
C4_Original ==
    (Done /\ ~sent.parsed) =>
        WholeSentenceE001(ann, NumTokens) /\ TokenLevelKept(ann, sent.tokens)

\* C4 amended: every unparsed sentence on which the language-ratio check
\* does not fire gets exactly one E001 over [0, token_count - 1] together
\* with all token-level annotations.
C4_ParseFailure ==
    (Done /\ ~sent.parsed /\ ~MostlyForeign(sent.tokens)) =>
        WholeSentenceE001(ann, NumTokens) /\ TokenLevelKept(ann, sent.tokens)

C4_Witness ==
    /\ Done
    /\ ~sent.parsed
    /\ ~MostlyForeign(sent.tokens)
    /\ Cardinality(MarkedTokens(sent.tokens)) = 2
    /\ Len(ann) = 3

\* ---------------------------------------------------------------------
\* wrappers.py: CorrectedSentence, CorrectionResult
\* ---------------------------------------------------------------------

\* Annotation.suggest is None
NoSuggest == "<None>"

\* an Annotation as wrappers.py reads it
WAnnotation(start, end, code, suggest) ==
    [start |-> start, end |-> end, code |-> code, suggest |-> suggest]

\* a CorrectToken as wrappers.py reads it
WToken(txt, original) == [txt |-> txt, original |-> original]

\* dataclass CorrectedSentence; annotations / terminals None is
\* has_annotations / has_terminals FALSE
CorrectedSentence(tokens, has_annotations, annotations, has_terminals, terminals) ==
    [tokens |-> tokens,
     has_annotations |-> has_annotations, annotations |-> annotations,
     has_terminals |-> has_terminals, terminals |-> terminals]

NumSentences == Len(results.sentences)

\* a.code in ignore_rules kept instead of dropped
KeepNotIgnored_Inverted(anns, rules) == SelectSeq(anns, LAMBDA a : a.code \in rules)

\* [a for a in self.annotations if a.code not in ignore_rules]
RECURSIVE KeepNotIgnored(_, _)
KeepNotIgnored(anns, rules) ==
    IF anns = <<>> THEN <<>>
    ELSE (IF Head(anns).code \notin rules THEN <<Head(anns)>> ELSE <<>>)
            \o KeepNotIgnored(Tail(anns), rules)

\* CorrectedSentence.filter_annotations
FilteredSentence(s, rules) ==
    IF ~s.has_annotations THEN s
    ELSE [s EXCEPT !.annotations = KeepNotIgnored(s.annotations, rules)]

FilterCodes == {"E001", "S004"}

FilterAnns ==
    {WAnnotation(0, 0, "E001", NoSuggest), WAnnotation(0, 0, "S004", NoSuggest),
     WAnnotation(0, 0, "S004", "x")}

FilterSentences ==
    {CorrectedSentence(<<WToken("a", "a")>>, FALSE, <<>>, FALSE, <<>>)}
    \cup {CorrectedSentence(<<WToken("a", "a")>>, TRUE, a, FALSE, <<>>) :
            a \in SeqsUpTo(FilterAnns, MaxAnns)}

InitFilter ==
    /\ AnnIdle
    /\ ParIdle
    /\ results \in {[sentences |-> ss] : ss \in SeqsUpTo(FilterSentences, MaxSentences)}
    /\ results0 = results
    /\ ignore_rules \in SUBSET FilterCodes
    /\ si = 0
    /\ text = "<None>"
    /\ all_errors = TRUE
    /\ format = ""
    /\ sentence_results = <<>>
    /\ full_correction_toks = <<>>
    /\ output = <<>>
    /\ error = ""
    /\ wpc = "filter"
    /\ ApiIdle

\* one iteration of: for sent in self.sentences: sent.filter_annotations(ignore_rules)
FilterSentence ==
    /\ wpc = "filter"
    /\ si < NumSentences
    /\ results' = [results EXCEPT !.sentences[si + 1] = FilteredSentence(@, ignore_rules)]
    /\ si' = si + 1
    /\ UNCHANGED <<results0, ignore_rules, wpc, annVars, parVars>>
    /\ UNCHANGED <<text, all_errors, format, sentence_results, full_correction_toks,
                   output, error, apiVars>>

FilterReturn ==
    /\ wpc = "filter"
    /\ si = NumSentences
    /\ wpc' = "filtered"
    /\ UNCHANGED <<results, results0, ignore_rules, si, annVars, parVars>>
    /\ UNCHANGED <<text, all_errors, format, sentence_results, full_correction_toks,
                   output, error, apiVars>>

NextFilter == FilterSentence \/ FilterReturn

SpecFilter == InitFilter /\ [][NextFilter]_vars

Filtered == wpc = "filtered"

\* C5: after filter_annotations(S) no annotation has its code in S, the
\* annotations with code not in S are the ones present before, in the same
\* order and with the same content, and a sentence without an annotation
\* list is unchanged.
C5_FilterAnnotations ==
    Filtered =>
        /\ Len(results.sentences) = Len(results0.sentences)
        /\ \A k \in DOMAIN results.sentences :
            LET after == results.sentences[k]
                before == results0.sentences[k]
            IN  /\ ~before.has_annotations => after = before
                /\ before.has_annotations =>
                    /\ \A i \in DOMAIN after.annotations :
                            after.annotations[i].code \notin ignore_rules
                    /\ after.annotations =
                            SelectSeq(before.annotations, LAMBDA a : a.code \notin ignore_rules)
                    /\ after = [before EXCEPT !.annotations = after.annotations]

C5_Witness ==
    /\ Filtered
    /\ \E k \in DOMAIN results.sentences :
            /\ results0.sentences[k].has_annotations
            /\ Len(results.sentences[k].annotations) = 1
            /\ Len(results0.sentences[k].annotations) = 2
    /\ \E k \in DOMAIN results.sentences : ~results0.sentences[k].has_annotations

\* token texts with and without a recorded original
FormatTokens == {WToken("a", ""), WToken("bc", " bc")}

Suggests == {NoSuggest, "", "x y"}

\* The annotations annotate() can attach to a sentence of n tokens: a span
\* inside the sentence, a token-level span running up to MaxSpan tokens from
\* its start, and the whole-sentence E001 of an empty sentence.
FormatAnns(n) ==
    {WAnnotation(se[1], se[2], "S004", g) : se \in Spans(n), g \in Suggests}
    \cup {WAnnotation(se[1], se[2], "S004", g) :
            se \in {p \in (0..(n - 1)) \X (n..(n + MaxSpan - 2)) : p[2] <= p[1] + MaxSpan - 1},
            g \in Suggests}
    \cup (IF n = 0 THEN {WAnnotation(0, 0 - 1, "E001", NoSuggest)} ELSE {})

\* annotate() returns its list ordered by (start, -end)
AnnotateOrdered(anns) ==
    \A i \in 1..(Len(anns) - 1) :
        \/ anns[i].start < anns[i + 1].start
        \/ anns[i].start = anns[i + 1].start /\ anns[i].end >= anns[i + 1].end

\* the terminals of a parsed sentence: the first token's terminal
Terminals(tokens) == IF tokens = <<>> THEN <<>> ELSE <<[index |-> 0, text |-> "T"]>>

\* ---------------------------------------------------------------------
\* wrappers.py: check_errors and GreynirCorrectAPI.correct
\* ---------------------------------------------------------------------

\* options.pop("input", None) found no input
NoText == "<None>"

RECURSIVE NumDocTokens(_)
NumDocTokens(ss) == IF ss = <<>> THEN 0 ELSE Len(Head(ss).tokens) + NumDocTokens(Tail(ss))

RECURSIVE NumDocAnns(_)
NumDocAnns(ss) == IF ss = <<>> THEN 0 ELSE Len(Head(ss).annotations) + NumDocAnns(Tail(ss))

\* options.get(key, default)
OptionsGet(options, key, default) ==
    IF key \in DOMAIN options THEN options[key] ELSE default

\* check_errors up to the call of api.correct: the options all_errors, input,
\* format, ... are popped, and from_options reads the ones that are left
CheckErrors ==
    /\ wpc = "check_errors"
    /\ \E prefilter \in BOOLEAN :
        LET options == [sentence_prefilter |-> prefilter]
        IN IF text = NoText
           THEN /\ error' = "ValueError: No input text"
                /\ wpc' = "raised"
                /\ UNCHANGED <<do_grammar_check, sentence_prefilter>>
           ELSE /\ do_grammar_check' = OptionsGet(options, "all_errors", TRUE)
                /\ sentence_prefilter' = OptionsGet(options, "sentence_prefilter", FALSE)
                /\ wpc' = "correct"
                /\ UNCHANGED error
    /\ UNCHANGED <<results, results0, ignore_rules, si, text, all_errors, format,
                   sentence_results, full_correction_toks, output, annVars, parVars,
                   corrected_tokens, calls>>

\* what check_errors calls on the result of correct()
Formatter == IF all_errors THEN "format_grammar" ELSE "format_spelling"

\* correct(): corrected_tokens = list(self._correct_spelling(text, ...))
CorrectSpelling ==
    /\ wpc = "correct"
    /\ corrected_tokens' \in SeqsUpTo(FormatTokens, MaxDocTokens)
    /\ calls' = Append(calls, "spelling")
    /\ wpc' = "spelled"
    /\ UNCHANGED <<results, results0, ignore_rules, si, text, all_errors, format,
                   sentence_results, full_correction_toks, output, error, annVars, parVars,
                   do_grammar_check, sentence_prefilter>>

\* the answer of the classifier is not looked at
ChecksGrammar_IgnoresAnswer(contains_error) == do_grammar_check

\* correct() goes on to the full grammar check; contains_error is the answer
\* of _sentence_contains_error, read only when a prefilter is configured
ChecksGrammar(contains_error) ==
    do_grammar_check /\ (~sentence_prefilter \/ contains_error)

\* calls after self._sentence_contains_error(corrected_tokens), which is
\* reached only when grammar checking is on and a prefilter is configured
AfterPrefilter(contains_error) ==
    IF do_grammar_check /\ sentence_prefilter
    THEN Append(calls, IF contains_error THEN "prefilter: error" ELSE "prefilter: no error")
    ELSE calls

\* correct(): grammar checking is disabled, or the sentence prefilter finds
\* no error: the tokens are returned as one CorrectedSentence without
\* annotations
CorrectUnchecked ==
    /\ wpc = "spelled"
    /\ \E contains_error \in BOOLEAN :
        /\ ~ChecksGrammar(contains_error)
        /\ calls' = AfterPrefilter(contains_error)
    /\ results' = [sentences |->
                    <<CorrectedSentence(corrected_tokens, FALSE, <<>>, FALSE, <<>>)>>]
    /\ results0' = results'
    /\ wpc' = Formatter
    /\ UNCHANGED <<ignore_rules, si, text, all_errors, format,
                   sentence_results, full_correction_toks, output, error, annVars, parVars,
                   do_grammar_check, sentence_prefilter, corrected_tokens>>

\* correct(): check_result = self._correct_grammar(corrected_tokens)
CorrectGrammar ==
    /\ wpc = "spelled"
    /\ \E contains_error \in BOOLEAN :
        /\ ChecksGrammar(contains_error)
        /\ calls' = Append(AfterPrefilter(contains_error), "parser")
    /\ wpc' = "grammar"
    /\ UNCHANGED <<results, results0, ignore_rules, si, text, all_errors, format,
                   sentence_results, full_correction_toks, output, error, annVars, parVars,
                   do_grammar_check, sentence_prefilter, corrected_tokens>>

\* the tokens the parser has not yet put into a sentence
TokensLeft == Len(corrected_tokens) - NumDocTokens(results.sentences)

\* correct(): one element of corrected_sentences, a sentence of the grammar
\* check: the next tokens of the input, with its annotations and, when it
\* parsed, its terminals
CorrectSentence ==
    /\ wpc = "grammar"
    /\ NumSentences < MaxSentences
    /\ \E n \in (IF NumSentences + 1 = MaxSentences THEN {TokensLeft} ELSE 0..TokensLeft),
          k \in 0..(MaxAnns - NumDocAnns(results.sentences)) :
        \E a \in {b \in [1..k -> FormatAnns(n)] : AnnotateOrdered(b)},
           has_terminals \in BOOLEAN :
            LET first == NumDocTokens(results.sentences)
                t == SubSeq(corrected_tokens, first + 1, first + n)
            IN results' = [sentences |-> Append(results.sentences,
                            CorrectedSentence(t, TRUE, a, has_terminals,
                                IF has_terminals THEN Terminals(t) ELSE <<>>))]
    /\ UNCHANGED <<results0, ignore_rules, si, text, all_errors, format,
                   sentence_results, full_correction_toks, output, error, wpc, annVars, parVars,
                   apiVars>>

\* correct(): result.filter_annotations(ignore_rules or set()); return result
CorrectReturn ==
    /\ wpc = "grammar"
    /\ TokensLeft = 0
    /\ results' = [sentences |-> [i \in 1..NumSentences |->
                        FilteredSentence(results.sentences[i], ignore_rules)]]
    /\ results0' = results'
    /\ wpc' = Formatter
    /\ UNCHANGED <<ignore_rules, si, text, all_errors, format,
                   sentence_results, full_correction_toks, output, error, annVars, parVars,
                   apiVars>>

\* ---------------------------------------------------------------------
\* wrappers.py: format_grammar
\* ---------------------------------------------------------------------

\* Python's a or b on strings (None and "" are both falsy)
Or(a, b) == IF a # "" THEN a ELSE b

\* s[i] with a Python index i
PyInRange(s, i) == i < Len(s) /\ i >= 0 - Len(s)
PyGet(s, i) == IF i >= 0 THEN s[i + 1] ELSE s[Len(s) + i + 1]

\* sep.join(strs)
RECURSIVE Join(_, _)
Join(strs, sep) ==
    IF strs = <<>> THEN ""
    ELSE IF Len(strs) = 1 THEN strs[1]
    ELSE strs[1] \o sep \o Join(Tail(strs), sep)

\* tokenizer.detokenize: the text rebuilt from the token texts
Detokenize(texts) == Join(texts, " ")

\* sort key (ann.start, ann.end): TRUE when a sorts strictly before b
StartEndLess(a, b) == a.start < b.start \/ (a.start = b.start /\ a.end < b.end)

RECURSIVE InsertStartEnd(_, _)
InsertStartEnd(s, a) ==
    IF s = <<>> THEN <<a>>
    ELSE IF StartEndLess(a, s[Len(s)])
         THEN Append(InsertStartEnd(SubSeq(s, 1, Len(s) - 1), a), s[Len(s)])
         ELSE Append(s, a)

\* annotations.sort(key=lambda ann: (ann.start, ann.end)), a stable sort
RECURSIVE SortStartEnd(_)
SortStartEnd(s) ==
    IF s = <<>> THEN <<>>
    ELSE InsertStartEnd(SortStartEnd(SubSeq(s, 1, Len(s) - 1)), s[Len(s)])

\* annotations[::-1]
Reverse(s) == [i \in 1..Len(s) |-> s[Len(s) + 1 - i]]

\* del toks[lo:hi] with 0 <= lo
DelSlice(toks, lo, hi) ==
    LET h == Min(hi, Len(toks))
    IN IF lo >= h THEN toks ELSE SubSeq(toks, 1, lo) \o SubSeq(toks, h + 1, Len(toks))

\* every annotation treated as carrying a suggestion
HasSuggest_Always(a) == TRUE

\* not (ann.suggest is None)
HasSuggest(a) == a.suggest # NoSuggest

\* The loop over annotations[::-1].  st.toks is full_correction_toks as the
\* list of the positions (1-based) its elements have in sentence.tokens: the
\* slice copy shares the token objects, so st.txt, the txt of every token of
\* the sentence, is what an assignment to .txt changes.
RECURSIVE ApplySuggestions(_, _)
ApplySuggestions(anns, st) ==
    IF anns = <<>> \/ ~st.ok THEN st
    ELSE LET a == Head(anns) IN
         IF ~HasSuggest(a) THEN ApplySuggestions(Tail(anns), st)
         ELSE IF ~PyInRange(st.toks, a.start) THEN [st EXCEPT !.ok = FALSE]
         ELSE LET id == PyGet(st.toks, a.start)
                  txt1 == [st.txt EXCEPT ![id] = a.suggest]
                  toks1 == IF a.end > a.start
                           THEN DelSlice(st.toks, a.start + 1, a.end + 1)
                           ELSE st.toks
              IN ApplySuggestions(Tail(anns), [toks |-> toks1, txt |-> txt1, ok |-> TRUE])

\* token_map = {t.index: t.text for t in sentence.terminals}; token_map.get(ix, default)
TerminalText(terminals, index, default) ==
    LET hits == {k \in DOMAIN terminals : terminals[k].index = index}
    IN IF hits = {} THEN default
       ELSE terminals[CHOOSE k \in hits : \A j \in hits : j <= k].text

\* the AnnTokenDict list of a sentence
TokenDicts(sentence) ==
    [i \in 1..Len(sentence.tokens) |->
        [x |-> IF sentence.has_terminals
               THEN TerminalText(sentence.terminals, i - 1, sentence.tokens[i].txt)
               ELSE sentence.tokens[i].txt,
         o |-> Or(sentence.tokens[i].original, sentence.tokens[i].txt)]]

Texts(tokens) == [i \in 1..Len(tokens) |-> tokens[i].txt]

\* one iteration of: for sentence in results.sentences
FormatSentence ==
    /\ wpc = "format_grammar"
    /\ si < NumSentences
    /\ LET sentence == results.sentences[si + 1]
           n == Len(sentence.tokens)
           sorted == SortStartEnd(sentence.annotations)
           st == ApplySuggestions(Reverse(sorted),
                    [toks |-> [i \in 1..n |-> i], txt |-> Texts(sentence.tokens), ok |-> TRUE])
           after == [sentence EXCEPT
                        !.annotations = sorted,
                        !.tokens = [i \in 1..n |->
                                        WToken(st.txt[i], sentence.tokens[i].original)]]
       IN IF ~sentence.has_annotations
          THEN /\ error' = "Exception: Annotations not set"
               /\ wpc' = "raised"
               /\ UNCHANGED <<results, si, sentence_results, full_correction_toks>>
          ELSE IF ~st.ok
          THEN /\ results' = [results EXCEPT !.sentences[si + 1] = after]
               /\ error' = "IndexError"
               /\ wpc' = "raised"
               /\ UNCHANGED <<si, sentence_results, full_correction_toks>>
          ELSE /\ results' = [results EXCEPT !.sentences[si + 1] = after]
               /\ full_correction_toks' =
                    [k \in 1..Len(st.toks) |-> [index |-> st.toks[k] - 1, txt |-> st.txt[st.toks[k]]]]
               /\ sentence_results' = Append(sentence_results,
                    [original |-> Join([i \in 1..n |-> sentence.tokens[i].original], ""),
                     partially_corrected |-> Detokenize(Texts(sentence.tokens)),
                     corrected |-> Detokenize([k \in 1..Len(st.toks) |-> st.txt[st.toks[k]]]),
                     annotations |-> sorted,
                     tokens |-> TokenDicts(after)])
               /\ si' = si + 1
               /\ UNCHANGED <<error, wpc>>
    /\ UNCHANGED <<results0, ignore_rules, text, all_errors, format, output, annVars, parVars,
                   apiVars>>

\* format_grammar reaches: return format_output(sentence_results, format, ...)
AtFormatOutput == wpc = "format_grammar" /\ si = NumSentences

Returns(lines) ==
    /\ output' = lines
    /\ wpc' = "returned"
    /\ UNCHANGED <<results, results0, ignore_rules, si, text, all_errors, format,
                   sentence_results, full_correction_toks, error, annVars, parVars, apiVars>>

Raises(e) ==
    /\ error' = e
    /\ wpc' = "raised"
    /\ UNCHANGED <<results, results0, ignore_rules, si, text, all_errors, format,
                   sentence_results, full_correction_toks, output, annVars, parVars, apiVars>>

\* str(None) is "None"
Str(suggest) == IF suggest = NoSuggest THEN "None" ELSE suggest

\* format_text: one item per sentence, the annotations listed under the
\* text when print_annotations and not print_all
FormatText ==
    /\ AtFormatOutput
    /\ format = "text"
    /\ \E print_annotations \in BOOLEAN, print_all \in BOOLEAN :
        Returns([k \in 1..Len(sentence_results) |->
            [txt |-> sentence_results[k].corrected,
             annotations |-> IF print_annotations /\ ~print_all
                             THEN sentence_results[k].annotations ELSE <<>>]])

\* token_offsets of one sentence: one offset per token and one past the end
RECURSIVE TokenOffsets(_, _)
TokenOffsets(tokens, offset) ==
    IF tokens = <<>> THEN <<offset>>
    ELSE <<offset>> \o TokenOffsets(Tail(tokens),
                            offset + Len(Or(Or(Head(tokens).o, Head(tokens).x), "")))

\* the end offset without the -1 that makes it inclusive
JsonEndChar_Exclusive(a, token_offsets) == PyGet(token_offsets, a.end + 1)

\* end_char=token_offsets[ann.end + 1] - 1
JsonEndChar(a, token_offsets) == PyGet(token_offsets, a.end + 1) - 1

JsonAnnotation(a, token_offsets) ==
    [start |-> a.start, end |-> a.end,
     start_char |-> PyGet(token_offsets, a.start),
     end_char |-> JsonEndChar(a, token_offsets),
     code |-> a.code, suggest |-> IF a.suggest = NoSuggest THEN "" ELSE a.suggest]

\* the loop of format_json from the sentence results srs on, offset being
\* the running character offset
RECURSIVE JsonLines(_, _)
JsonLines(srs, offset) ==
    IF srs = <<>> THEN [lines |-> <<>>, ok |-> TRUE]
    ELSE LET result == Head(srs)
             token_offsets == TokenOffsets(result.tokens, offset)
             inside == \A i \in DOMAIN result.annotations :
                            /\ PyInRange(token_offsets, result.annotations[i].start)
                            /\ PyInRange(token_offsets, result.annotations[i].end + 1)
         IN IF ~inside THEN [lines |-> <<>>, ok |-> FALSE]
            ELSE LET rest == JsonLines(Tail(srs), token_offsets[Len(token_offsets)])
                     ard == [original |-> result.original,
                             corrected |-> result.corrected,
                             tokens |-> result.tokens,
                             annotations |->
                                [i \in 1..Len(result.annotations) |->
                                    JsonAnnotation(result.annotations[i], token_offsets)]]
                 IN [lines |-> <<ard>> \o rest.lines, ok |-> rest.ok]

FormatJson ==
    /\ AtFormatOutput
    /\ format = "json"
    /\ LET r == JsonLines(sentence_results, 0)
       IN IF r.ok THEN Returns(r.lines) ELSE Raises("IndexError")

CsvLine(a) ==
    a.code \o "," \o Str(a.suggest) \o "," \o ToString(a.start) \o "," \o ToString(a.end)

RECURSIVE Flatten(_)
Flatten(ss) == IF ss = <<>> THEN <<>> ELSE Head(ss) \o Flatten(Tail(ss))

\* format_csv: one line per annotation
FormatCsv ==
    /\ AtFormatOutput
    /\ format = "csv"
    /\ Returns(Flatten([k \in 1..Len(sentence_results) |->
            [i \in 1..Len(sentence_results[k].annotations) |->
                CsvLine(sentence_results[k].annotations[i])]]))

M2Annotation(a) ==
    "A " \o ToString(a.start) \o " " \o ToString(a.end) \o "|||" \o a.code \o "|||"
        \o Str(a.suggest) \o "|||REQUIRED|||-NONE-|||0"

M2Sentence(result) ==
    <<"S " \o Join([i \in 1..Len(result.tokens) |-> result.tokens[i].x], " ")>>
    \o [i \in 1..Len(result.annotations) |-> M2Annotation(result.annotations[i])]
    \o <<"">>

\* format_m2
FormatM2 ==
    /\ AtFormatOutput
    /\ format = "m2"
    /\ Returns(Flatten([k \in 1..Len(sentence_results) |-> M2Sentence(sentence_results[k])]))

Formats == {"text", "json", "csv", "m2"}

\* format_output falls through its four branches
FormatInvalid ==
    /\ AtFormatOutput
    /\ format \notin Formats
    /\ Raises("Exception: invalid format")

\* format_spelling: the text of each sentence, or one line per token
FormatSpelling ==
    /\ wpc = "format_spelling"
    /\ output' =
        IF format = "text"
        THEN [k \in 1..NumSentences |-> Detokenize(Texts(results.sentences[k].tokens))]
        ELSE IF format \in {"csv", "json"}
        THEN Flatten([k \in 1..NumSentences |->
                SelectSeq(Texts(results.sentences[k].tokens),
                          LAMBDA t : format = "json" \/ t # "")])
        ELSE <<>>
    /\ wpc' = "returned"
    /\ UNCHANGED <<results, results0, ignore_rules, si, text, all_errors, format,
                   sentence_results, full_correction_toks, error, annVars, parVars, apiVars>>

NextCorrect ==
    \/ CorrectSpelling
    \/ CorrectUnchecked
    \/ CorrectGrammar
    \/ CorrectSentence
    \/ CorrectReturn

NextFormat ==
    \/ CorrectSpelling
    \/ CorrectUnchecked
    \/ CorrectGrammar
    \/ CorrectSentence
    \/ CorrectReturn
    \/ FormatSentence
    \/ FormatText
    \/ FormatJson
    \/ FormatCsv
    \/ FormatM2
    \/ FormatInvalid

InitFormat ==
    /\ AnnIdle
    /\ ParIdle
    /\ results = [sentences |-> <<>>]
    /\ results0 = [sentences |-> <<>>]
    /\ ignore_rules = {}
    /\ si = 0
    /\ text = "input"
    /\ all_errors = TRUE
    /\ format \in Formats \cup {"xml"}
    /\ sentence_results = <<>>
    /\ full_correction_toks = <<>>
    /\ output = <<>>
    /\ error = ""
    /\ wpc = "correct"
    /\ do_grammar_check = TRUE
    /\ sentence_prefilter = TRUE
    /\ corrected_tokens = <<>>
    /\ calls = <<>>

SpecFormat == InitFormat /\ [][NextFormat]_vars

\* correct() on an API object with any settings
InitCorrect ==
    /\ AnnIdle
    /\ ParIdle
    /\ results = [sentences |-> <<>>]
    /\ results0 = [sentences |-> <<>>]
    /\ ignore_rules = {}
    /\ si = 0
    /\ text = "input"
    /\ all_errors = TRUE
    /\ format = "json"
    /\ sentence_results = <<>>
    /\ full_correction_toks = <<>>
    /\ output = <<>>
    /\ error = ""
    /\ wpc = "correct"
    /\ do_grammar_check \in BOOLEAN
    /\ sentence_prefilter \in BOOLEAN
    /\ corrected_tokens = <<>>
    /\ calls = <<>>

SpecCorrect == InitCorrect /\ [][NextCorrect]_vars

NextCheck ==
    \/ CheckErrors
    \/ FormatSpelling
    \/ NextFormat

InitCheck ==
    /\ AnnIdle
    /\ ParIdle
    /\ results = [sentences |-> <<>>]
    /\ results0 = [sentences |-> <<>>]
    /\ ignore_rules = {}
    /\ si = 0
    /\ text \in {NoText, "input"}
    /\ all_errors \in BOOLEAN
    /\ format \in Formats \cup {"xml"}
    /\ sentence_results = <<>>
    /\ full_correction_toks = <<>>
    /\ output = <<>>
    /\ error = ""
    /\ wpc = "check_errors"
    /\ ApiIdle

SpecCheck == InitCheck /\ [][NextCheck]_vars

\* ---------------------------------------------------------------------
\* Properties of format_grammar and format_output
\* ---------------------------------------------------------------------

\* format_grammar has returned the string in the given format
Returned(f) == wpc = "returned" /\ all_errors /\ format = f

\* the lines the M2 description gives for one sentence result
M2Described(result) ==
    <<"S " \o Join([i \in 1..Len(result.tokens) |-> result.tokens[i].x], " ")>>
    \o [i \in 1..Len(result.annotations) |->
            "A " \o ToString(result.annotations[i].start) \o " "
                 \o ToString(result.annotations[i].end + 1) \o "|||"
                 \o result.annotations[i].code \o "|||"
                 \o Str(result.annotations[i].suggest) \o "|||REQUIRED|||-NONE-|||0"]
    \o <<"">>

\* C6: the M2 output is, per sentence in input order, a line "S <token
\* texts joined by single spaces>", one line "A <start> <end+1>|||<code>|||
\* <suggest>|||REQUIRED|||-NONE-|||0" per annotation, and a blank line.
C6_M2Format ==
    Returned("m2") =>
        output = Flatten([k \in 1..Len(sentence_results) |-> M2Described(sentence_results[k])])

\* format_grammar has just built full_correction_toks for sentence si
Spliced == si >= 1 /\ Len(sentence_results) = si

SuggestionBearing(sentence) ==
    {i \in DOMAIN sentence.annotations : sentence.annotations[i].suggest # NoSuggest}

\* token i (from 0) of the sentence as it was handed to format_grammar
Untouched(before, i) == [index |-> i, txt |-> before[i + 1].txt]

\* C7: for a sentence none of whose annotations carries a suggest, the fully
\* corrected token sequence is the original one (same tokens, same texts,
\* same order), and the corrected text equals the partially corrected text.
C7_NoSuggestIdentity ==
    (Spliced /\ SuggestionBearing(results0.sentences[si]) = {}) =>
        LET before == results0.sentences[si].tokens
        IN /\ full_correction_toks = [i \in 1..Len(before) |-> Untouched(before, i - 1)]
           /\ results.sentences[si].tokens = before
           /\ sentence_results[si].corrected = sentence_results[si].partially_corrected
           /\ sentence_results[si].corrected = Detokenize(Texts(before))

C7_Witness ==
    /\ Spliced
    /\ SuggestionBearing(results0.sentences[si]) = {}
    /\ Len(results0.sentences[si].annotations) = 2
    /\ Len(results0.sentences[si].tokens) = 3
    /\ \E i \in 1..2 : results0.sentences[si].annotations[i].end
                            > results0.sentences[si].annotations[i].start

\* C8: for a sentence of n tokens and a single suggestion-bearing annotation
\* with span [s, e], the fully corrected token sequence has n - (e - s)
\* tokens: those before s unchanged, one token with the suggestion as text,
\* then the original tokens from e + 1 on, unchanged and in order.
C8_SingleSuggestion ==
    (Spliced /\ Cardinality(SuggestionBearing(results0.sentences[si])) = 1) =>
        LET before == results0.sentences[si].tokens
            n == Len(before)
            a == results0.sentences[si].annotations[
                    CHOOSE i \in SuggestionBearing(results0.sentences[si]) : TRUE]
            s == a.start
            e == a.end
        IN /\ Len(full_correction_toks) = n - (e - s)
           /\ \A i \in 0..(s - 1) : full_correction_toks[i + 1] = Untouched(before, i)
           /\ full_correction_toks[s + 1] = [index |-> s, txt |-> a.suggest]
           /\ \A j \in (e + 1)..(n - 1) :
                full_correction_toks[j - (e - s) + 1] = Untouched(before, j)

\* 0 <= start <= end < token_count
SpanInvariant(a, n) == 0 <= a.start /\ a.start <= a.end /\ a.end < n

\* len(original text, or text when the original is empty)
TokenLen(t) == IF t.o # "" THEN Len(t.o) ELSE Len(t.x)

\* sum of TokenLen over the tokens lo..hi (from 0) of a token dict list
RECURSIVE SumLens(_, _, _)
SumLens(tokens, lo, hi) ==
    IF lo > hi THEN 0 ELSE TokenLen(tokens[lo + 1]) + SumLens(tokens, lo + 1, hi)

\* the characters of the sentences before sentence k of the checked text
RECURSIVE CharsBefore(_)
CharsBefore(k) ==
    IF k <= 1 THEN 0
    ELSE CharsBefore(k - 1)
         + SumLens(sentence_results[k - 1].tokens, 0, Len(sentence_results[k - 1].tokens) - 1)

\* C9: in JSON output, start_char of an annotation [start, end] is the summed
\* length of the tokens preceding token start in the checked text, end_char
\* is start_char plus the summed length of tokens start..end minus 1, and
\* both table lookups are in bounds for every annotation that satisfies the
\* span invariant.
C9_JsonOffsets ==
    /\ Returned("json") =>
        /\ Len(output) = Len(sentence_results)
        /\ \A k \in DOMAIN output :
            /\ Len(output[k].annotations) = Len(sentence_results[k].annotations)
            /\ \A i \in DOMAIN output[k].annotations :
                LET a == output[k].annotations[i]
                    toks == sentence_results[k].tokens
                IN SpanInvariant(a, Len(toks)) =>
                    /\ a.start_char = CharsBefore(k) + SumLens(toks, 0, a.start - 1)
                    /\ a.end_char = a.start_char + SumLens(toks, a.start, a.end) - 1
    /\ (wpc = "raised" /\ error = "IndexError" /\ format = "json" /\ si = NumSentences) =>
        \E k \in DOMAIN sentence_results : \E i \in DOMAIN sentence_results[k].annotations :
            ~SpanInvariant(sentence_results[k].annotations[i], Len(sentence_results[k].tokens))

C9_Witness ==
    /\ Returned("json")
    /\ Len(output) = 2
    /\ CharsBefore(2) > 0
    /\ \E i \in DOMAIN output[2].annotations :
        /\ SpanInvariant(output[2].annotations[i], Len(sentence_results[2].tokens))
        /\ output[2].annotations[i].start = 1
        /\ output[2].annotations[i].start_char > CharsBefore(2)
        /\ output[2].annotations[i].end_char > output[2].annotations[i].start_char

\* C10: check_errors raises an error whenever input is absent and whenever
\* format is not one of text, json, csv, m2, with all_errors true and with
\* all_errors false; in neither case does it return a string.
C10_RejectsBadOptions ==
    (text = NoText \/ format \notin Formats) => wpc # "returned"

\* C11: when input is present and format is one of text, json, csv, m2,
\* check_errors returns a string and does not raise, on every path of
\* correct(): full grammar check, grammar check disabled, and the pre-filter
\* short-circuit returning one sentence without annotations.
C11_ReturnsOnGoodOptions ==
    (text # NoText /\ format \in Formats) => wpc # "raised"

\* the collaborator c has been called
Called(c) == \E i \in DOMAIN calls : calls[i] = c

\* C12: when check_errors is called with all_errors=False only token-level
\* correction is carried out: the grammar parser is never invoked during the
\* call and the result is formatted from the spelling-corrected tokens alone.
C12_TokenLevelOnly ==
    ~all_errors => ~Called("parser")

\* correct() has returned its CorrectionResult
CorrectReturned == wpc = Formatter

\* C14: in correct() the grammar parser is invoked only if grammar checking
\* is enabled and either no pre-filter is configured or the pre-filter
\* reported an error; on both short-circuit paths the parser is never invoked
\* and the result is exactly one sentence holding all corrected tokens with
\* no annotation list; the spelling pipeline runs exactly once, before any
\* other step.
C14_CorrectOrchestration ==
    /\ Called("parser") =>
        do_grammar_check /\ (~sentence_prefilter \/ Called("prefilter: error"))
    /\ (~do_grammar_check \/ Called("prefilter: no error")) => ~Called("parser")
    /\ calls # <<>> =>
        /\ calls[1] = "spelling"
        /\ \A i \in DOMAIN calls : calls[i] = "spelling" => i = 1
    /\ (CorrectReturned /\ ~Called("parser")) =>
        /\ ~do_grammar_check \/ Called("prefilter: no error")
        /\ results.sentences =
            <<CorrectedSentence(corrected_tokens, FALSE, <<>>, FALSE, <<>>)>>
    /\ CorrectReturned => Called("spelling")

C14_Witness ==
    /\ CorrectReturned
    /\ do_grammar_check
    /\ sentence_prefilter
    /\ calls = <<"spelling", "prefilter: no error">>
    /\ Len(corrected_tokens) = MaxDocTokens
    /\ Len(results.sentences) = 1

\* format_grammar has been entered with the CorrectionResult results0
InFormatGrammar == all_errors /\ wpc \in {"format_grammar", "returned", "raised"}

\* C13: format_grammar leaves the token sequence of every sentence unchanged
\* (same tokens, same text for every token) whatever the annotations and
\* suggestions are, so that formatting the same CorrectionResult again gives
\* the same partially corrected text and token texts.
C13_TokensUnchanged ==
    InFormatGrammar =>
        /\ NumSentences = Len(results0.sentences)
        /\ \A k \in 1..NumSentences :
            results.sentences[k].tokens = results0.sentences[k].tokens

\* the annotations of a sentence that carry a non-empty suggest
NonEmptySuggest(sentence) ==
    {i \in DOMAIN sentence.annotations : sentence.annotations[i].suggest \notin {NoSuggest, ""}}

\* C17: only an annotation carrying a non-empty suggest changes the fully
\* corrected token sequence: an annotation whose suggest is absent or is the
\* empty string leaves the text of token start and the tokens start+1..end
\* untouched.
C17_EmptySuggestIsNoOp ==
    (Spliced /\ NonEmptySuggest(results0.sentences[si]) = {}) =>
        LET before == results0.sentences[si].tokens
        IN full_correction_toks = [i \in 1..Len(before) |-> Untouched(before, i - 1)]

\* ---------------------------------------------------------------------
\* format_grammar on one sentence whose annotations all lie inside it
\* ---------------------------------------------------------------------

SpliceCodes == {"S004", "E002"}

\* annotations of token-level and of grammar errors on a sentence of n
\* tokens, their spans inside the sentence
SpliceAnns(n) ==
    {WAnnotation(se[1], se[2], c, g) :
        se \in Spans(n), c \in SpliceCodes, g \in {NoSuggest, "x y"}}

\* annotate() leaves no two neighbours with the same start, end and code
NoRepeatedNeighbour(anns) ==
    \A i \in 1..(Len(anns) - 1) :
        ~(/\ anns[i].start = anns[i + 1].start
          /\ anns[i].end = anns[i + 1].end
          /\ anns[i].code = anns[i + 1].code)

InitSplice ==
    /\ AnnIdle
    /\ ParIdle
    /\ \E n \in 0..MaxSpliceTokens, k \in 0..MaxSpliceAnns :
        \E t \in [1..n -> FormatTokens],
           a \in {b \in [1..k -> SpliceAnns(n)] :
                    AnnotateOrdered(b) /\ NoRepeatedNeighbour(b)},
           has_terminals \in BOOLEAN :
            /\ results = [sentences |->
                            <<CorrectedSentence(t, TRUE, a, has_terminals,
                                IF has_terminals THEN Terminals(t) ELSE <<>>)>>]
            /\ corrected_tokens = t
    /\ results0 = results
    /\ ignore_rules = {}
    /\ si = 0
    /\ text = "input"
    /\ all_errors = TRUE
    /\ format = "text"
    /\ sentence_results = <<>>
    /\ full_correction_toks = <<>>
    /\ output = <<>>
    /\ error = ""
    /\ wpc = "format_grammar"
    /\ do_grammar_check = TRUE
    /\ sentence_prefilter = FALSE
    /\ calls = <<"spelling", "parser">>

NextSplice == FormatSentence \/ FormatText

SpecSplice == InitSplice /\ [][NextSplice]_vars

\* the token indices inside the span of some suggestion-bearing annotation
InSuggestionSpan(sentence) ==
    {i \in 0..(Len(sentence.tokens) - 1) :
        \E j \in SuggestionBearing(sentence) :
            sentence.annotations[j].start <= i /\ i <= sentence.annotations[j].end}

\* C16: for any set of suggestion-bearing annotations of a sentence
\* (overlapping and nested spans included), applying them in reverse
\* (start, end) order keeps the indices of the annotations not yet applied
\* valid: only tokens inside an annotation's original span are deleted and
\* every token outside all suggestion-bearing spans is still present at the
\* end.
C16_ReverseOrderKeepsIndices ==
    /\ wpc # "raised"
    /\ Spliced =>
        LET before == results0.sentences[si]
        IN \A i \in 0..(Len(before.tokens) - 1) :
            i \notin InSuggestionSpan(before) =>
                \E k \in DOMAIN full_correction_toks :
                    full_correction_toks[k] = Untouched(before.tokens, i)

\* ---------------------------------------------------------------------
\* checker.py: the properties parser and reducer under concurrent callers
\* ---------------------------------------------------------------------

\* the lock is taken whether it is free or not
LockFree_Always == TRUE

\* Lock.acquire succeeds
LockFree == _lock = 0

\* with self._lock: the caller waits for the lock and takes it
Acquire(t) ==
    /\ tpc[t] = "idle"
    /\ LockFree
    /\ _lock' = t
    /\ tpc' = [tpc EXCEPT ![t] = "check"]
    /\ UNCHANGED <<_parser, _reducer, modified, reports, created, edp, got>>

\* if GreynirCorrect._parser is None or GreynirCorrect._parser.is_grammar_modified()[0]
CheckParser(t) ==
    /\ tpc[t] = "check"
    /\ tpc' = [tpc EXCEPT ![t] = IF _parser = 0 \/ modified THEN "new_parser" ELSE "return"]
    /\ UNCHANGED <<_parser, _reducer, _lock, modified, reports, created, edp, got>>

\* GreynirCorrect._parser = edp = ErrorDetectingParser(): the new instance
\* has loaded the grammar as it now is
NewParser(t) ==
    /\ tpc[t] = "new_parser"
    /\ created' = created + 1
    /\ _parser' = created + 1
    /\ edp' = [edp EXCEPT ![t] = created + 1]
    /\ modified' = FALSE
    /\ tpc' = [tpc EXCEPT ![t] = "new_reducer"]
    /\ UNCHANGED <<_reducer, _lock, reports, got>>

\* GreynirCorrect._reducer = Reducer(edp.grammar)
NewReducer(t) ==
    /\ tpc[t] = "new_reducer"
    /\ _reducer' = edp[t]
    /\ tpc' = [tpc EXCEPT ![t] = "return"]
    /\ UNCHANGED <<_parser, _lock, modified, reports, created, edp, got>>

\* return GreynirCorrect._parser, leaving the with block
ReturnParser(t) ==
    /\ tpc[t] = "return"
    /\ got' = [got EXCEPT ![t].parser = _parser]
    /\ _lock' = 0
    /\ tpc' = [tpc EXCEPT ![t] = "has_parser"]
    /\ UNCHANGED <<_parser, _reducer, modified, reports, created, edp>>

\* the property reducer, read after the property parser
ReadReducer(t) ==
    /\ tpc[t] = "has_parser"
    /\ got' = [got EXCEPT ![t].reducer = _reducer]
    /\ tpc' = [tpc EXCEPT ![t] = "done"]
    /\ UNCHANGED <<_parser, _reducer, _lock, modified, reports, created, edp>>

\* the grammar file changes on disk: the current parser reports it modified
GrammarModified ==
    /\ _parser # 0
    /\ ~modified
    /\ reports < MaxReports
    /\ modified' = TRUE
    /\ reports' = reports + 1
    /\ UNCHANGED <<_parser, _reducer, _lock, created, tpc, edp, got>>

NextParser ==
    \/ \E t \in Threads :
        /\ \/ Acquire(t)
           \/ CheckParser(t)
           \/ NewParser(t)
           \/ NewReducer(t)
           \/ ReturnParser(t)
           \/ ReadReducer(t)
        /\ UNCHANGED <<annVars, wrapVars>>
    \/ GrammarModified /\ UNCHANGED <<annVars, wrapVars>>

InitParser ==
    /\ AnnIdle
    /\ WrapIdle
    /\ ParIdle

SpecParser == InitParser /\ [][NextParser]_vars

\* the callers inside the with block of the property parser
InCriticalSection ==
    {t \in Threads : tpc[t] \in {"check", "new_parser", "new_reducer", "return"}}

\* C15: under any interleaving of concurrent callers of the parser property
\* at most one caller at a time executes the check-and-initialize section,
\* and as long as the grammar is not reported modified exactly one
\* parser/reducer pair is ever created and every caller receives that same
\* parser instance.
C15_SerializedSingleton ==
    /\ Cardinality(InCriticalSection) <= 1
    /\ \A t \in InCriticalSection : _lock = t
    /\ reports = 0 =>
        /\ created <= 1
        /\ \A t \in Threads :
            tpc[t] \in {"has_parser", "done"} =>
                /\ created = 1
                /\ got[t].parser = 1
                /\ _parser = 1
                /\ _reducer = 1

C15_Witness ==
    /\ reports = 0
    /\ \A t \in Threads : tpc[t] = "done" /\ got[t].parser = 1

\* C21: under any interleaving of concurrent callers, a re-initialization
\* after a modified grammar included, a caller that reads the property
\* parser and then the property reducer obtains a reducer that is not None
\* and was built from the grammar of the very parser instance it received:
\* the pair is never mixed across two initializations.
C21_MatchingPair ==
    \A t \in Threads :
        tpc[t] = "done" =>
            /\ got[t].reducer # 0
            /\ got[t].reducer = got[t].parser

\* ---------------------------------------------------------------------
\* Further properties of annotate()
\* ---------------------------------------------------------------------

HasCode(c) == \E i \in DOMAIN ann : ann[i].code = c

\* C18: in annotate() the tree walker and the pattern matcher are run exactly
\* when the sentence parsed and the language-ratio check did not fire; the
\* tree walker completes before the pattern matcher starts, so the pattern
\* matcher receives the token-level annotations plus the tree walker's; on
\* the E004 and E001 paths neither is run, and the result never contains both
\* an E004 and an E001 annotation.
C18_WalkerThenMatcher ==
    /\ pc = "pattern" =>
        /\ sent.parsed /\ ~LanguageRatioFires
        /\ ran = <<"ErrorFinder">>
        /\ \E k \in 0..Len(ann) :
            /\ \A i \in 1..k : ann[i].code \in TokenCodes
            /\ \A i \in (k + 1)..Len(ann) : ann[i].code \in WalkerCodes
    /\ Done =>
        /\ ran = IF sent.parsed /\ ~LanguageRatioFires
                 THEN <<"ErrorFinder", "PatternMatcher">> ELSE <<>>
        /\ ran = <<>> => \A i \in DOMAIN ann : ann[i].code \notin WalkerCodes \cup PatternCodes
        /\ (HasCode("E004") \/ HasCode("E001")) => ran = <<>>
        /\ ~(HasCode("E004") /\ HasCode("E001"))

C18_Witness ==
    /\ Done
    /\ ran = <<"ErrorFinder", "PatternMatcher">>
    /\ \E c \in TokenCodes : HasCode(c)
    /\ \E c \in WalkerCodes : HasCode(c)
    /\ \E c \in PatternCodes : HasCode(c)

\* the token-level pass moves on from token ix
VisitsToken == pc = "tokens" /\ ix' = ix + 1

\* C19: in the token-level pass a token's error marker is suppressed if and
\* only if the sentence parsed, the token maps to a terminal and the
\* suggestion validation reports a mismatch; in every other case (unparsed
\* sentence, token without terminal, validation passes, validation fails with
\* a lookup error) exactly one annotation is emitted for it, with start the
\* token index and end = start + error_span - 1, and processing continues
\* with the next token.
C19_TokenLevelPass ==
    [][VisitsToken =>
        LET t == sent.tokens[ix + 1]
            suppressed == sent.parsed /\ lastCheck' = "mismatch"
        IN /\ pc' = "tokens"
           /\ t.err.code = "" => ann' = ann
           /\ t.err.code # "" =>
                /\ lastCheck' = "mismatch" => sent.parsed
                /\ suppressed => ann' = ann
                /\ ~suppressed =>
                    ann' = Append(ann, Annotation(ix, ix + t.err.span - 1, t.err.code, <<>>))
    ]_vars

C19_Witness ==
    /\ pc = "tokens"
    /\ ix = 2
    /\ sent.parsed
    /\ sent.tokens[1].err.code # ""
    /\ sent.tokens[2].err.code # ""
    /\ lastCheck = "lookup_error"
    /\ Len(ann) = 1
    /\ ann[1].start = 1

\* ---------------------------------------------------------------------
\* annotate() on sentences that do not parse
\* ---------------------------------------------------------------------

\* recognized words and punctuation, with or without a one-token marker
FailTokens ==
    {t \in Tokens : t.kind \in {"WORD", "PUNCTUATION"} /\ t.val /\ t.err.span <= 1}

InitParseFail ==
    /\ \E n \in 0..MaxFailTokens :
        \E t \in [1..n -> FailTokens], e \in {NoIndex} \cup 0..(n - 1) :
            sent = [tokens |-> t, parsed |-> FALSE, err_index |-> e]
    /\ ix = 0
    /\ words_in_bin = 0
    /\ words_not_in_bin = 0
    /\ ann = <<>>
    /\ pc = "tokens"
    /\ lastCheck = "none"
    /\ ran = <<>>
    /\ WrapIdle
    /\ ParIdle

NextParseFail == TokenStep \/ TokensDone \/ ParseFailed

SpecParseFail == InitParseFail /\ [][NextParseFail]_vars

\* the indices of the tokens the slice sent.tokens[start:end] reads
SliceIndices(n, start, end) == {i \in 0..(n - 1) : start <= i /\ i < end}

\* C20: for an unparsed sentence of n tokens with reported failure index e
\* (0 when absent) the context window named in the E001 detail is exactly
\* the tokens at indices max(0, e-1) .. min(n-1, e+1), never reading outside
\* [0, n-1], and the position reported in the detail is e + 1.
C20_ContextWindow ==
    (Done /\ ~sent.parsed /\ HasCode("E001")) =>
        LET n == NumTokens
            e == IF sent.err_index = NoIndex THEN 0 ELSE sent.err_index
        IN \A i \in DOMAIN ann :
            ann[i].code = "E001" =>
                /\ ann[i].detail[1] = e + 1
                /\ 0 <= ann[i].detail[2]
                /\ ann[i].detail[3] <= n
                /\ SliceIndices(n, ann[i].detail[2], ann[i].detail[3])
                    = {j \in 0..(n - 1) : Max(0, e - 1) <= j /\ j <= Min(n - 1, e + 1)}

C20_Witness ==
    /\ Done
    /\ ~sent.parsed
    /\ NumTokens = MaxFailTokens
    /\ sent.err_index = 2
    /\ \E i \in DOMAIN ann :
        ann[i].code = "E001" /\ ann[i].detail = <<3, 1, 4>>

====
